---------------------------- MODULE Spec2Model ----------------------------
(***************************************************************************)
(* SqlCache (src/src/cache.ts): a key-value cache over one table of a      *)
(* MySQL connection.  The model holds the instance built by the            *)
(* constructor, the table behind the connection (the reference schema of   *)
(* the README), the clock, and a fixed set of callers, each running one    *)
(* get / set / delete at a time.  A query goes through three steps: the    *)
(* operation hands it to client.query, the server executes it, and the     *)
(* callback of promisifyQuery settles the promise and runs the rest of the *)
(* operation.  Other callers and the clock may act between any two steps.  *)
(***************************************************************************)
EXTENDS Integers, Sequences, FiniteSets, TLC

VARIABLES
  options,  \* the argument the constructor was called with
  cache,    \* the SqlCache instance, or the error the constructor threw
  store,    \* the table: for each key its row, if any
  now,      \* the clock, in milliseconds
  calls,    \* for each caller, the operation it runs and how far it got
  budget    \* the number of operations that may still be started

vars == <<options, cache, store, now, calls, budget>>

---------------------------------------------------------------------------
(* Bounds of the exploration *)

\* number of clock steps explored
MaxTicks == 2

\* number of operations started on an instance in Spec
MaxCalls == 2

\* number of operations started on an instance in SpecRace
MaxRaceCalls == 3

\* number of operations started after the constructor call in SpecCtor
MaxCtorCalls == 1

\* number of operations started on an instance in SpecSeq
MaxSeqCalls == 2

\* number of operations started on an instance in SpecLive
MaxLiveCalls == 1

\* milliseconds per clock step
TickMs == 500

Procs == {1, 2}

Keys == {"k1", "k2"}

\* each caller writes a value of its own
ValueOf(p) == IF p = 1 THEN "v1" ELSE "v2"

\* the value of a row an earlier run left in the table
LeftValue == "v0"

---------------------------------------------------------------------------
(* JavaScript values that may be absent or of several types *)

Undefined == [type |-> "undefined"]

Null == [type |-> "null"]

Num(n) == [type |-> "number", v |-> n]

Str(s) == [type |-> "string", v |-> s]

Bool(b) == [type |-> "boolean", v |-> b]

\* ToBoolean of a value, as if (x) and !x take it
Truthy(x) ==
  CASE x.type = "undefined" -> FALSE
    [] x.type = "null"      -> FALSE
    [] x.type = "number"    -> x.v # 0
    [] x.type = "string"    -> x.v # ""
    [] x.type = "boolean"   -> x.v
    [] OTHER                -> TRUE

\* ToNumber of the values a row's expiry_ts takes: null converts to 0
ToNumber(x) == IF x.type = "number" THEN x.v ELSE 0

---------------------------------------------------------------------------
(* The constructor *)

\* defaultSetOptions.ttl
DefaultTtl == 300

\* the field initialisers of the class
DefaultTableName == "cache"

DefaultDeleteExpiredItems == TRUE

MsgNoOptions ==
  "configuration object with client and databaseName must be set when initializing SqlCache"

MsgNoClient == "client must be set when initializing SqlCache"

MsgNoDatabaseName == "databaseName must be set when initializing SqlCache"

NotConstructed == [status |-> "none"]

Thrown(msg) == [status |-> "threw", message |-> msg]

\* the arguments new SqlCache(...) is explored with
CtorInputs ==
  {Undefined} \cup
  [type : {"object"},
   client : {Undefined, Str("connection")},
   databaseName : {Undefined, Str(""), Str("test")},
   tableName : {Undefined, Str(""), Str("test_table")},
   deleteExpiredItems : {Undefined, Bool(TRUE), Bool(FALSE)}]

\* the constructor, were it to test deleteExpiredItems for truth instead of
\* comparing it with undefined
NewSqlCacheTruthyFlag(o) ==
  IF ~Truthy(o) THEN Thrown(MsgNoOptions)
  ELSE IF ~Truthy(o.client) THEN Thrown(MsgNoClient)
  ELSE IF ~Truthy(o.databaseName) THEN Thrown(MsgNoDatabaseName)
  ELSE [status |-> "ok",
        databaseName |-> o.databaseName.v,
        tableName |-> IF Truthy(o.tableName) THEN o.tableName.v
                      ELSE DefaultTableName,
        deleteExpiredItems |->
          IF Truthy(o.deleteExpiredItems) THEN o.deleteExpiredItems.v
          ELSE DefaultDeleteExpiredItems,
        defaultSetOptions |-> [ttl |-> Num(DefaultTtl)]]

\* the instance (or the error thrown) new SqlCache(o) yields
NewSqlCache(o) ==
  IF ~Truthy(o) THEN Thrown(MsgNoOptions)
  ELSE IF ~Truthy(o.client) THEN Thrown(MsgNoClient)
  ELSE IF ~Truthy(o.databaseName) THEN Thrown(MsgNoDatabaseName)
  ELSE [status |-> "ok",
        databaseName |-> o.databaseName.v,
        tableName |-> IF Truthy(o.tableName) THEN o.tableName.v
                      ELSE DefaultTableName,
        deleteExpiredItems |->
          IF o.deleteExpiredItems # Undefined THEN o.deleteExpiredItems.v
          ELSE DefaultDeleteExpiredItems,
        defaultSetOptions |-> [ttl |-> Num(DefaultTtl)]]

\* the table identifier, were the database name left out of it
TableIdNoDatabase(c) == c.tableName

\* ${this.databaseName}.${this.tableName}
TableId(c) == c.databaseName \o "." \o c.tableName

---------------------------------------------------------------------------
(* The table behind the connection *)

NoRow == [present |-> FALSE]

Row(v, t, c) == [present |-> TRUE, value |-> v, ttl |-> t, created_at |-> c]

\* UNIX_TIMESTAMP(CURRENT_TIMESTAMP): whole seconds
UnixTimestamp(ms) == ms \div 1000

\* a parameter as the column stores it: undefined and null are written as NULL
Column(x) == IF x.type \in {"undefined", "null"} THEN Null ELSE x

\* expiry_ts, were created_at left out of the sum
ExpiryTsTtlOnly(row) == IF row.ttl.type = "number" THEN Num(row.ttl.v) ELSE Null

\* (ttl + UNIX_TIMESTAMP(created_at)) as expiry_ts: NULL when ttl is NULL
ExpiryTs(row) ==
  IF row.ttl.type = "number" THEN Num(row.ttl.v + row.created_at) ELSE Null

ErrDuplicate == "ER_DUP_ENTRY"

ConnectionErrors == {"ER_CONNECTION_LOST"}

NoError == "null"

\* what the SELECT of get returns for key k
SelectRows(st, k) ==
  IF st[k].present
  THEN <<[value |-> st[k].value, expiry_ts |-> ExpiryTs(st[k])]>>
  ELSE <<>>

\* the table after INSERT ... SET {key, value, ttl}; created_at defaults to
\* the current timestamp
InsertRow(st, q, ms) ==
  [st EXCEPT ![q.params.key] =
     Row(q.params.value, Column(q.params.ttl), UnixTimestamp(ms))]

\* the table after a DELETE without its WHERE clause
DeleteRowEveryKey(st, k) == [j \in DOMAIN st |-> NoRow]

\* the table after DELETE ... WHERE key = k
DeleteRow(st, k) == [st EXCEPT ![k] = NoRow]

\* a table without the unique key: no insert is refused
NoUniqueKey(st, q) == FALSE

\* UNIQUE KEY key: an insert for a key that has a row is refused
Duplicate(st, q) == q.kind = "INSERT" /\ st[q.params.key].present

\* the reply of the server to a query it executes without a connection error
Reply(st, q) ==
  IF Duplicate(st, q) THEN [error |-> ErrDuplicate, results |-> <<>>]
  ELSE IF q.kind = "SELECT"
  THEN [error |-> NoError, results |-> SelectRows(st, q.params.key)]
  ELSE [error |-> NoError, results |-> <<>>]

\* the table after the server executed a query without a connection error
Executed(st, q, ms) ==
  IF Duplicate(st, q) THEN st
  ELSE IF q.kind = "INSERT" THEN InsertRow(st, q, ms)
  ELSE IF q.kind = "DELETE" THEN DeleteRow(st, q.params.key)
  ELSE st

---------------------------------------------------------------------------
(* The queries of the three operations *)

SelectQuery(c, k) ==
  [kind |-> "SELECT", table |-> TableId(c), params |-> [key |-> k]]

InsertQuery(c, k, v, t) ==
  [kind |-> "INSERT", table |-> TableId(c),
   params |-> [key |-> k, value |-> v, ttl |-> t]]

DeleteQuery(c, k) ==
  [kind |-> "DELETE", table |-> TableId(c), params |-> [key |-> k]]

\* an options object of set: ttl is an own property or not
EmptyOptions == [type |-> "object", has_ttl |-> FALSE, ttl |-> Undefined]

TtlOptions(t) == [type |-> "object", has_ttl |-> TRUE, ttl |-> t]

\* the third argument set is explored with: omitted, {}, {ttl: undefined},
\* {ttl: 0}, {ttl: 1}
SetOptionInputs ==
  {Undefined, EmptyOptions, TtlOptions(Undefined),
   TtlOptions(Num(0)), TtlOptions(Num(1))}

\* the ttl, were the defaults spread after the options
ResolveTtlDefaultsLast(c, o) == c.defaultSetOptions.ttl

\* const { ttl } = { ...this.defaultSetOptions, ...options }, options
\* defaulting to {} when the argument is undefined
ResolveTtl(c, o) ==
  LET opts == IF o = Undefined THEN EmptyOptions ELSE o
  IN  IF opts.has_ttl THEN opts.ttl ELSE c.defaultSetOptions.ttl

\* the expiry test, were the comparison strict
IsExpiredStrict(ms, row) == ms > ToNumber(row.expiry_ts) * 1000

\* the expiry test, were seconds compared with milliseconds
IsExpiredSeconds(ms, row) == ms >= ToNumber(row.expiry_ts)

\* Date.now() >= row.expiry_ts * 1000
IsExpired(ms, row) == ms >= ToNumber(row.expiry_ts) * 1000

\* the decision to delete, were deleteExpiredItems not consulted
ShouldDeleteWhateverFlag(c, ms, row) == ms >= ToNumber(row.expiry_ts) * 1000

\* this.deleteExpiredItems && Date.now() >= row.expiry_ts * 1000
ShouldDelete(c, ms, row) == c.deleteExpiredItems /\ IsExpired(ms, row)

---------------------------------------------------------------------------
(* The callers *)

NoReply == [error |-> NoError, results |-> <<>>]

Pending == [state |-> "pending"]

Resolved(v) == [state |-> "resolved", value |-> v]

Rejected(e) == [state |-> "rejected", value |-> e]

NoData == [read |-> FALSE]

Idle ==
  [op |-> "none", key |-> "", value |-> "", options |-> Undefined,
   pc |-> "idle", queries |-> <<>>, reply |-> NoReply, data |-> NoData,
   outcome |-> Pending]

\* a call that has just handed its first query q to client.query
StartedCall(op, k, v, o, q) ==
  [op |-> op, key |-> k, value |-> v, options |-> o,
   pc |-> "sent", queries |-> <<q>>, reply |-> NoReply, data |-> NoData,
   outcome |-> Pending]

CanStart(p) ==
  /\ cache.status = "ok"
  /\ calls[p].pc \in {"idle", "settled"}
  /\ budget > 0

LastQuery(call) == call.queries[Len(call.queries)]

---------------------------------------------------------------------------
(* promisifyQuery and the code of each operation after its await *)

\* promisifyQuery, were the error of the callback ignored
PromisifiedSwallow(reply) == Resolved(reply.results)

\* promisifyQuery, were reject not called when the callback reports an error
PromisifiedNoReject(reply) ==
  IF reply.error # NoError THEN Pending ELSE Resolved(reply.results)

\* the promise of promisifyQuery once the callback ran with (error, results)
Promisified(reply) ==
  IF reply.error # NoError THEN Rejected(Str(reply.error))
  ELSE Resolved(reply.results)

Settle(call, out) ==
  [call EXCEPT !.pc = "settled", !.reply = NoReply, !.outcome = out]

\* get after its SELECT, were data.length not tested before data[0] is read
GetAfterReadNoLengthCheck(c, call, rows, ms) ==
  LET seen == [call EXCEPT !.data = [read |-> TRUE, rows |-> rows, at |-> ms]]
  IN  IF Len(rows) # 0
      THEN IF c.deleteExpiredItems /\ ms >= ToNumber(rows[1].expiry_ts) * 1000
           THEN [seen EXCEPT
                   !.pc = "sent",
                   !.reply = NoReply,
                   !.queries = Append(@, [kind |-> "DELETE",
                                          table |-> c.databaseName \o "."
                                                    \o c.tableName,
                                          params |-> [key |-> call.key]])]
           ELSE Settle(seen, Resolved(Str(rows[1].value)))
      ELSE Settle(seen, Rejected(Str("TypeError")))

\* get after its SELECT, were the delete issued for a key without a row too
GetAfterReadDeleteOnMiss(c, call, rows, ms) ==
  LET seen == [call EXCEPT !.data = [read |-> TRUE, rows |-> rows, at |-> ms]]
      repair == [seen EXCEPT
                   !.pc = "sent",
                   !.reply = NoReply,
                   !.queries = Append(@, [kind |-> "DELETE",
                                          table |-> c.databaseName \o "."
                                                    \o c.tableName,
                                          params |-> [key |-> call.key]])]
  IN  IF Len(rows) # 0
      THEN IF c.deleteExpiredItems /\ ms >= ToNumber(rows[1].expiry_ts) * 1000
           THEN repair
           ELSE Settle(seen, Resolved(Str(rows[1].value)))
      ELSE IF c.deleteExpiredItems THEN repair
      ELSE Settle(seen, Resolved(Undefined))

\* get after its SELECT, were an expired row reported absent and left in the
\* table
GetAfterReadHideExpired(c, call, rows, ms) ==
  LET seen == [call EXCEPT !.data = [read |-> TRUE, rows |-> rows, at |-> ms]]
  IN  IF Len(rows) # 0
      THEN IF c.deleteExpiredItems /\ ms >= ToNumber(rows[1].expiry_ts) * 1000
           THEN Settle(seen, Resolved(Undefined))
           ELSE Settle(seen, Resolved(Str(rows[1].value)))
      ELSE Settle(seen, Resolved(Undefined))

\* get after its SELECT resolved with data, at clock ms
GetAfterRead(c, call, rows, ms) ==
  LET seen == [call EXCEPT !.data = [read |-> TRUE, rows |-> rows, at |-> ms]]
  IN  IF Len(rows) # 0
      THEN IF ShouldDelete(c, ms, rows[1])
           THEN [seen EXCEPT
                   !.pc = "sent",
                   !.reply = NoReply,
                   !.queries = Append(@, DeleteQuery(c, call.key))]
           ELSE Settle(seen, Resolved(Str(rows[1].value)))
      ELSE Settle(seen, Resolved(Undefined))

\* get after the delete it awaited resolved: return;
GetAfterDelete(call) == Settle(call, Resolved(Undefined))

\* set after its INSERT resolved: the function ends
SetAfterInsert(call) == Settle(call, Resolved(Undefined))

\* delete, were its return statement missing
DeleteAfterQueryVoid(call) == Settle(call, Resolved(Undefined))

\* delete after its DELETE resolved: return true;
DeleteAfterQuery(call) == Settle(call, Resolved(Bool(TRUE)))

\* the caller after the callback, were a failure of the delete that get
\* issues caught and ignored
AfterCallbackCatchRepair(c, call, ms) ==
  LET promise == Promisified(call.reply)
  IN  IF call.op = "get" /\ Len(call.queries) = 2
      THEN Settle(call, Resolved(Undefined))
      ELSE IF promise.state = "rejected" THEN Settle(call, promise)
      ELSE IF call.op = "set" THEN Settle(call, Resolved(Undefined))
      ELSE IF call.op = "delete" THEN Settle(call, Resolved(Bool(TRUE)))
      ELSE GetAfterRead(c, call, promise.value, ms)

\* the caller after the callback of its outstanding query ran; an operation
\* whose promise is not settled by the callback stays at its await
AfterCallback(c, call, ms) ==
  LET promise == Promisified(call.reply)
  IN  IF promise.state = "pending"
      THEN [call EXCEPT !.pc = "awaiting", !.reply = NoReply]
      ELSE IF promise.state = "rejected" THEN Settle(call, promise)
      ELSE IF call.op = "set" THEN SetAfterInsert(call)
      ELSE IF call.op = "delete" THEN DeleteAfterQuery(call)
      ELSE IF Len(call.queries) = 1
      THEN GetAfterRead(c, call, promise.value, ms)
      ELSE GetAfterDelete(call)

---------------------------------------------------------------------------
(* The state machine *)

\* the arguments the instances of Spec are constructed with: the defaults,
\* and every optional field set
InitialOptions ==
  {[type |-> "object", client |-> Str("connection"),
    databaseName |-> Str("test"), tableName |-> Undefined,
    deleteExpiredItems |-> Undefined],
   [type |-> "object", client |-> Str("connection"),
    databaseName |-> Str("test"), tableName |-> Str("test_table"),
    deleteExpiredItems |-> Bool(FALSE)]}

EmptyStore == [k \in Keys |-> NoRow]

\* the table when the instance is constructed: empty, or holding a row that
\* an earlier run inserted with ttl 0
InitialStores ==
  {EmptyStore, [EmptyStore EXCEPT !["k1"] = Row(LeftValue, Num(0), 0)]}

\* the state after new SqlCache(o)
Init ==
  /\ options \in InitialOptions
  /\ cache = NewSqlCache(options)
  /\ store \in InitialStores
  /\ now = 0
  /\ calls = [p \in Procs |-> Idle]
  /\ budget = MaxCalls

\* the state after new SqlCache(o), with more operations to come
InitRace ==
  /\ options \in InitialOptions
  /\ cache = NewSqlCache(options)
  /\ store \in InitialStores
  /\ now = 0
  /\ calls = [p \in Procs |-> Idle]
  /\ budget = MaxRaceCalls

\* the state after new SqlCache(o), for callers that take turns
InitSeq ==
  /\ options \in InitialOptions
  /\ cache = NewSqlCache(options)
  /\ store \in InitialStores
  /\ now = 0
  /\ calls = [p \in Procs |-> Idle]
  /\ budget = MaxSeqCalls

\* the state after new SqlCache(o), for the runs checked for progress
InitLive ==
  /\ options \in InitialOptions
  /\ cache = NewSqlCache(options)
  /\ store \in InitialStores
  /\ now = 0
  /\ calls = [p \in Procs |-> Idle]
  /\ budget = MaxLiveCalls

\* the state before the constructor is called
InitCtor ==
  /\ options = Undefined
  /\ cache = NotConstructed
  /\ store \in InitialStores
  /\ now = 0
  /\ calls = [p \in Procs |-> Idle]
  /\ budget = MaxCtorCalls

\* new SqlCache(o)
Construct(o) ==
  /\ cache.status = "none"
  /\ options' = o
  /\ cache' = NewSqlCache(o)
  /\ UNCHANGED <<store, now, calls, budget>>

\* cache.get(k) up to its first await
Get(p, k) ==
  /\ CanStart(p)
  /\ calls' = [calls EXCEPT ![p] =
                 StartedCall("get", k, "", Undefined, SelectQuery(cache, k))]
  /\ budget' = budget - 1
  /\ UNCHANGED <<options, cache, store, now>>

\* cache.set(k, v, o) up to its await
Set(p, k, v, o) ==
  /\ CanStart(p)
  /\ calls' = [calls EXCEPT ![p] =
                 StartedCall("set", k, v, o,
                             InsertQuery(cache, k, v, ResolveTtl(cache, o)))]
  /\ budget' = budget - 1
  /\ UNCHANGED <<options, cache, store, now>>

\* cache.delete(k) up to its await
Delete(p, k) ==
  /\ CanStart(p)
  /\ calls' = [calls EXCEPT ![p] =
                 StartedCall("delete", k, "", Undefined, DeleteQuery(cache, k))]
  /\ budget' = budget - 1
  /\ UNCHANGED <<options, cache, store, now>>

\* the server executes the outstanding query of caller p
ServerExecute(p) ==
  /\ calls[p].pc = "sent"
  /\ LET q == LastQuery(calls[p])
     IN  /\ store' = Executed(store, q, now)
         /\ calls' = [calls EXCEPT ![p].pc = "replied",
                                   ![p].reply = Reply(store, q)]
  /\ UNCHANGED <<options, cache, now, budget>>

\* the connection fails the outstanding query of caller p with error e
ServerFail(p, e) ==
  /\ calls[p].pc = "sent"
  /\ calls' = [calls EXCEPT ![p].pc = "replied",
                            ![p].reply = [error |-> e, results |-> <<>>]]
  /\ UNCHANGED <<options, cache, store, now, budget>>

\* the connection invokes the callback of caller p's query
Callback(p) ==
  /\ calls[p].pc = "replied"
  /\ calls' = [calls EXCEPT ![p] = AfterCallback(cache, calls[p], now)]
  /\ UNCHANGED <<options, cache, store, now, budget>>

\* the clock advances
Tick ==
  /\ now < MaxTicks * TickMs
  /\ now' = now + TickMs
  /\ UNCHANGED <<options, cache, store, calls, budget>>

Next ==
  \/ \E p \in Procs, k \in Keys : Get(p, k)
  \/ \E p \in Procs, k \in Keys, o \in SetOptionInputs :
       Set(p, k, ValueOf(p), o)
  \/ \E p \in Procs, k \in Keys : Delete(p, k)
  \/ \E p \in Procs : ServerExecute(p)
  \/ \E p \in Procs, e \in ConnectionErrors : ServerFail(p, e)
  \/ \E p \in Procs : Callback(p)
  \/ Tick

\* no operation is between its call and its settling
Quiet == \A p \in Procs : calls[p].pc \in {"idle", "settled"}

\* the steps of callers that start an operation only when none is running
NextSeq ==
  \/ \E p \in Procs, k \in Keys : Quiet /\ Get(p, k)
  \/ \E p \in Procs, k \in Keys, o \in SetOptionInputs :
       Quiet /\ Set(p, k, ValueOf(p), o)
  \/ \E p \in Procs, k \in Keys : Quiet /\ Delete(p, k)
  \/ \E p \in Procs : ServerExecute(p)
  \/ \E p \in Procs, e \in ConnectionErrors : ServerFail(p, e)
  \/ \E p \in Procs : Callback(p)
  \/ Tick

\* the connection answers every query it was handed, and invokes the
\* callback of every query it answered
Responsive ==
  \A p \in Procs :
    /\ WF_vars(ServerExecute(p) \/ \E e \in ConnectionErrors : ServerFail(p, e))
    /\ WF_vars(Callback(p))

NextCtor ==
  \/ \E o \in CtorInputs : Construct(o)
  \/ Next

\* an instance under concurrent callers
Spec == Init /\ [][Next]_vars

\* an instance under concurrent callers, over longer runs
SpecRace == InitRace /\ [][Next]_vars

\* an instance whose callers take turns
SpecSeq == InitSeq /\ [][NextSeq]_vars

\* an instance under concurrent callers and a responsive connection
SpecLive == InitLive /\ [][Next]_vars /\ Responsive

\* the constructor on every argument, and the first operations after it
SpecCtor == InitCtor /\ [][NextCtor]_vars

---------------------------------------------------------------------------
(* Vocabulary of the properties *)

\* expiry_ts * 1000 as JavaScript computes it (a null expiry_ts counts as 0)
ExpiryMs(r) == IF r.expiry_ts.type = "number" THEN r.expiry_ts.v * 1000 ELSE 0

\* the instant, in milliseconds, from which a stored row counts as expired
RowExpiryMs(row) ==
  IF row.ttl.type = "number" THEN (row.ttl.v + row.created_at) * 1000 ELSE 0

\* q is a query of the given kind whose only parameter is key k
KeyQuery(q, kind, k) == q.kind = kind /\ q.params = [key |-> k]

\* caller p runs a get whose SELECT has been answered with a row
GotRow(c) == c.op = "get" /\ c.data.read /\ Len(c.data.rows) > 0

\* ... and the row was expired / unexpired when get looked at the clock
GotExpired(c) == GotRow(c) /\ c.data.at >= ExpiryMs(c.data.rows[1])

GotLive(c) == GotRow(c) /\ c.data.at < ExpiryMs(c.data.rows[1])

\* caller p runs a get whose SELECT has been answered with no row
GotNothing(c) == c.op = "get" /\ c.data.read /\ Len(c.data.rows) = 0

\* in this step the server answers the outstanding query of caller p
Answered(p) == calls[p].pc = "sent" /\ calls'[p].pc = "replied"

\* in this step the callback of caller p's query runs
CalledBack(p) == calls[p].pc = "replied" /\ calls'[p].pc # "replied"

\* in this step the server answers a query of a get of caller p
GetAnswered(p) == Answered(p) /\ calls[p].op = "get"

Enabled == cache.status = "ok" /\ cache.deleteExpiredItems

Disabled == cache.status = "ok" /\ ~cache.deleteExpiredItems

---------------------------------------------------------------------------
(* C1 *)

\* C1 as stated: a get that read an expired row with deleteExpiredItems
\* enabled issues the read and exactly one delete for the same key, and
\* resolves to undefined.
C1_AsStated ==
  \A p \in Procs :
    LET c == calls[p]
    IN  (Enabled /\ GotExpired(c)) =>
          /\ Len(c.queries) = 2
          /\ KeyQuery(c.queries[1], "SELECT", c.key)
          /\ KeyQuery(c.queries[2], "DELETE", c.key)
          /\ (c.pc = "settled" => c.outcome = Resolved(Undefined))

\* C1, amended: a get that read an expired row with deleteExpiredItems
\* enabled issues the read and exactly one delete for the same key and no
\* other query; it resolves to undefined when that delete succeeds and
\* rejects with the delete's error when it fails.
C1_ExpiredReadRepairs ==
  [][\A p \in Procs :
       LET c == calls[p]
           d == calls'[p]
       IN  /\ (Enabled /\ GotExpired(d)) =>
                /\ Len(d.queries) = 2
                /\ KeyQuery(d.queries[1], "SELECT", d.key)
                /\ KeyQuery(d.queries[2], "DELETE", d.key)
           /\ (Enabled /\ GotExpired(c) /\ CalledBack(p)) =>
                /\ d.pc = "settled"
                /\ d.queries = c.queries
                /\ d.outcome =
                     IF c.reply.error = NoError THEN Resolved(Undefined)
                     ELSE Rejected(Str(c.reply.error))]_vars

\* a get read an expired row, deleted it and resolved to undefined
C1_Witness ==
  \E p \in Procs :
    /\ Enabled
    /\ GotExpired(calls[p])
    /\ calls[p].pc = "settled"
    /\ calls[p].outcome = Resolved(Undefined)
    /\ ~store[calls[p].key].present

---------------------------------------------------------------------------
(* C2 *)

\* C2: with deleteExpiredItems disabled a get issues its read and nothing
\* else, no query of a get changes the table, and a get that read an expired
\* row resolves to the value of that row.
C2_DisabledNeverDeletes ==
  [][\A p \in Procs :
       LET c == calls[p]
           d == calls'[p]
       IN  Disabled =>
             /\ d.op = "get" =>
                  /\ Len(d.queries) = 1
                  /\ KeyQuery(d.queries[1], "SELECT", d.key)
             /\ GetAnswered(p) => store' = store
             /\ (GotExpired(d) /\ d.pc = "settled") =>
                  d.outcome = Resolved(Str(d.data.rows[1].value))]_vars

\* a get read an expired row with deleteExpiredItems disabled and resolved
\* to its value, the row still being in the table
C2_Witness ==
  \E p \in Procs :
    /\ Disabled
    /\ GotExpired(calls[p])
    /\ calls[p].pc = "settled"
    /\ calls[p].outcome = Resolved(Str(calls[p].data.rows[1].value))
    /\ store[calls[p].key].present

---------------------------------------------------------------------------
(* C3 *)

\* C3 as stated: the insert of every set carries options.ttl when the options
\* supply a number, and the default of 300 in every other case.
C3_AsStated ==
  \A p \in Procs :
    LET c == calls[p]
    IN  c.op = "set" =>
          /\ c.queries[1].kind = "INSERT"
          /\ c.queries[1].params.ttl =
               IF c.options # Undefined /\ c.options.has_ttl
                  /\ c.options.ttl.type = "number"
               THEN c.options.ttl
               ELSE Num(DefaultTtl)

---------------------------------------------------------------------------
(* C4 *)

\* C4: a query the connection reports as failed leaves the table unchanged;
\* the operation that issued it settles in the callback as rejected with the
\* error of that query and issues no further query, then or later.
C4_ErrorsPropagate ==
  [][\A p \in Procs :
       LET c == calls[p]
           d == calls'[p]
       IN  /\ (Answered(p) /\ d.reply.error # NoError) => store' = store
           /\ (CalledBack(p) /\ c.reply.error # NoError) =>
                /\ d.pc = "settled"
                /\ d.outcome = Rejected(Str(c.reply.error))
                /\ d.queries = c.queries
           /\ (c.pc = "settled" /\ budget' = budget) => d = c]_vars

\* a delete and a set have both been rejected with the error of their query
C4_Witness ==
  \E p, q \in Procs :
    /\ calls[p].op = "delete"
    /\ calls[p].outcome = Rejected(Str("ER_CONNECTION_LOST"))
    /\ calls[q].op = "set"
    /\ calls[q].outcome = Rejected(Str(ErrDuplicate))

---------------------------------------------------------------------------
(* C5 *)

\* C5: a delete issues one DELETE for its key and nothing else; when the
\* query succeeds the table holds no row for the key afterwards, every other
\* row is as before (so a delete of a key without a row changes nothing), and
\* the delete resolves to true.
C5_DeleteIdempotent ==
  [][\A p \in Procs :
       LET c == calls[p]
           d == calls'[p]
       IN  /\ d.op = "delete" =>
                /\ Len(d.queries) = 1
                /\ KeyQuery(d.queries[1], "DELETE", d.key)
           /\ (Answered(p) /\ c.op = "delete" /\ d.reply.error = NoError) =>
                /\ ~store'[c.key].present
                /\ \A k \in Keys \ {c.key} : store'[k] = store[k]
                /\ ~store[c.key].present => store' = store
           /\ (CalledBack(p) /\ c.op = "delete" /\ c.reply.error = NoError) =>
                /\ d.pc = "settled"
                /\ d.outcome = Resolved(Bool(TRUE))]_vars

\* two deletes of the same key have both resolved to true, and the key has
\* no row
C5_Witness ==
  /\ \A p \in Procs :
       /\ calls[p].op = "delete"
       /\ calls[p].key = "k1"
       /\ calls[p].outcome = Resolved(Bool(TRUE))
  /\ ~store["k1"].present

---------------------------------------------------------------------------
(* C6 *)

\* C6: the read of a get for a key without a row, when it succeeds, returns
\* no rows and leaves the table unchanged; the get then resolves to undefined
\* having issued the read and nothing else.
C6_MissIsAbsent ==
  [][\A p \in Procs :
       LET c == calls[p]
           d == calls'[p]
       IN  /\ (GetAnswered(p) /\ Len(c.queries) = 1
               /\ d.reply.error = NoError /\ ~store[c.key].present) =>
                /\ d.reply.results = <<>>
                /\ store' = store
           /\ (CalledBack(p) /\ c.op = "get" /\ Len(c.queries) = 1
               /\ c.reply.error = NoError /\ c.reply.results = <<>>) =>
                /\ d.pc = "settled"
                /\ d.outcome = Resolved(Undefined)
                /\ Len(d.queries) = 1
                /\ KeyQuery(d.queries[1], "SELECT", d.key)]_vars

\* a get for a key without a row has resolved to undefined
C6_Witness ==
  \E p \in Procs :
    /\ GotNothing(calls[p])
    /\ calls[p].pc = "settled"
    /\ calls[p].outcome = Resolved(Undefined)
    /\ ~store[calls[p].key].present

---------------------------------------------------------------------------
(* C7 *)

\* C7: the read of a get returns the value and ttl + created_at of the row of
\* its key and leaves the table unchanged; when the clock is before
\* expiry_ts * 1000 as get looks at it, the get resolves to that value having
\* issued the read and nothing else, whatever deleteExpiredItems is.
C7_LiveRowReturned ==
  [][\A p \in Procs :
       LET c == calls[p]
           d == calls'[p]
       IN  /\ (GetAnswered(p) /\ Len(c.queries) = 1
               /\ d.reply.error = NoError /\ store[c.key].present) =>
                /\ Len(d.reply.results) = 1
                /\ d.reply.results[1].value = store[c.key].value
                /\ ExpiryMs(d.reply.results[1]) = RowExpiryMs(store[c.key])
                /\ store' = store
           /\ (CalledBack(p) /\ c.op = "get" /\ Len(c.queries) = 1
               /\ c.reply.error = NoError /\ Len(c.reply.results) > 0
               /\ now < ExpiryMs(c.reply.results[1])) =>
                /\ d.pc = "settled"
                /\ d.outcome = Resolved(Str(c.reply.results[1].value))
                /\ Len(d.queries) = 1
                /\ KeyQuery(d.queries[1], "SELECT", d.key)]_vars

\* with deleteExpiredItems enabled, a get has resolved to the value of a row
\* that expires within the explored time and is still in the table
C7_Witness ==
  \E p \in Procs :
    /\ Enabled
    /\ GotLive(calls[p])
    /\ calls[p].data.rows[1].expiry_ts = Num(1)
    /\ calls[p].pc = "settled"
    /\ calls[p].outcome = Resolved(Str(calls[p].data.rows[1].value))
    /\ store[calls[p].key].present

---------------------------------------------------------------------------
(* C8 *)

\* the constructor argument lacks the configuration, the client or a
\* non-empty databaseName
Misconfigured(o) ==
  \/ o = Undefined
  \/ o.client = Undefined
  \/ o.databaseName \in {Undefined, Str("")}

\* the table name an argument asks for: its tableName, or "cache" when it
\* has none (or an empty one)
AskedTableName(o) ==
  IF o.tableName \in {Undefined, Str("")} THEN "cache" ELSE o.tableName.v

\* C8: the constructor throws exactly when the configuration, the client or a
\* non-empty databaseName is missing; otherwise the instance has the
\* databaseName given, the tableName given or "cache", the deleteExpiredItems
\* given (false included) or true, and a default ttl of 300.  The constructor
\* step issues no query and leaves the table alone, and no query is ever
\* issued when it threw.
C8_Construction ==
  [][/\ cache'.status # "none" =>
          /\ cache'.status = "threw" <=> Misconfigured(options')
          /\ cache'.status = "ok" <=> ~Misconfigured(options')
          /\ cache'.status = "ok" =>
               /\ cache'.databaseName = options'.databaseName.v
               /\ cache'.tableName = AskedTableName(options')
               /\ cache'.deleteExpiredItems =
                    IF options'.deleteExpiredItems = Undefined THEN TRUE
                    ELSE options'.deleteExpiredItems.v
               /\ cache'.defaultSetOptions.ttl = Num(300)
          /\ cache'.status = "threw" => \A p \in Procs : calls'[p] = Idle
     /\ (cache.status = "none" /\ cache'.status # "none") =>
          /\ calls' = calls
          /\ store' = store]_vars

\* an instance was constructed from an argument without tableName and with
\* deleteExpiredItems false, and has served an operation
C8_Witness ==
  /\ cache.status = "ok"
  /\ options.tableName = Undefined
  /\ cache.tableName = "cache"
  /\ options.deleteExpiredItems = Bool(FALSE)
  /\ ~cache.deleteExpiredItems
  /\ \E p \in Procs : calls[p].pc = "settled"

---------------------------------------------------------------------------
(* C9 *)

\* C9: every query of every operation, the delete inside get included,
\* addresses "<databaseName>.<tableName>" as the constructor argument gives
\* them, tableName being "cache" when the argument has none.
C9_TableIdentifier ==
  cache.status = "ok" =>
    \A p \in Procs :
      \A i \in 1..Len(calls[p].queries) :
        calls[p].queries[i].table =
          options.databaseName.v \o "." \o AskedTableName(options)

\* an instance with a custom tableName has issued the read of a get and the
\* delete inside it
C9_Witness ==
  /\ cache.status = "ok"
  /\ options.tableName = Str("test_table")
  /\ \E p \in Procs :
       /\ calls[p].op = "get"
       /\ Len(calls[p].queries) = 2
       /\ calls[p].queries[1].table = "test.test_table"
       /\ calls[p].queries[2].table = "test.test_table"

---------------------------------------------------------------------------
(* C10 *)

\* C10 as stated: when the delete that a get issued for an expired row
\* executes, the row it removes, if any, is expired at that moment.
C10_AsStated ==
  [][\A p \in Procs :
       LET c == calls[p]
           d == calls'[p]
       IN  (GetAnswered(p) /\ Len(c.queries) = 2 /\ d.reply.error = NoError
            /\ store[c.key].present /\ ~store'[c.key].present) =>
             now >= RowExpiryMs(store[c.key])]_vars

---------------------------------------------------------------------------
(* C11 *)

\* the kinds of the queries an operation has issued so far, in order
Kinds(call) == [i \in 1..Len(call.queries) |-> call.queries[i].kind]

\* C11: set issues one INSERT and delete one DELETE; get issues its SELECT and
\* at most one DELETE after it, and that DELETE is issued only in the step in
\* which the callback of the SELECT ran, without error and with a row; an
\* operation settles only in a step in which the callback of its outstanding
\* query ran.
C11_OneQueryAtATime ==
  [][\A p \in Procs :
       LET c == calls[p]
           d == calls'[p]
       IN  /\ d.op = "set" => Kinds(d) = <<"INSERT">>
           /\ d.op = "delete" => Kinds(d) = <<"DELETE">>
           /\ d.op = "get" => Kinds(d) \in {<<"SELECT">>, <<"SELECT", "DELETE">>}
           /\ (Len(d.queries) = 2 /\ Len(c.queries) # 2) =>
                /\ CalledBack(p)
                /\ d.queries[1] = c.queries[1]
                /\ Len(c.queries) = 1
                /\ c.reply.error = NoError
                /\ Len(c.reply.results) > 0
                /\ d.pc = "sent"
           /\ (d.pc = "settled" /\ c.pc # "settled") => CalledBack(p)
           /\ (d.pc = "sent" /\ c.pc # "sent") =>
                \/ c.pc \in {"idle", "settled"} /\ Len(d.queries) = 1
                \/ c.pc = "replied" /\ Len(d.queries) = Len(c.queries) + 1]_vars

\* a get that issued its SELECT and then its DELETE has settled
C11_Witness ==
  \E p \in Procs :
    /\ calls[p].op = "get"
    /\ calls[p].pc = "settled"
    /\ Kinds(calls[p]) = <<"SELECT", "DELETE">>

---------------------------------------------------------------------------
(* C12 *)

\* C12: the only query of set is the INSERT of its key, value and resolved
\* ttl, issued when set is called whatever the table holds; when it reaches a
\* table that has a row for the key, it is answered with an error, the table
\* is left as it was and set rejects with that error; no step changes a row
\* that stays in the table.
C12_InsertNeverReplaces ==
  [][/\ \A p \in Procs :
         LET c == calls[p]
             d == calls'[p]
         IN  /\ d.op = "set" =>
                  d.queries = <<InsertQuery(cache, d.key, d.value,
                                            ResolveTtl(cache, d.options))>>
             /\ (Answered(p) /\ c.op = "set" /\ store[c.key].present) =>
                  /\ d.reply.error \in {ErrDuplicate} \cup ConnectionErrors
                  /\ store' = store
             /\ (CalledBack(p) /\ c.op = "set" /\ c.reply.error # NoError) =>
                  /\ d.pc = "settled"
                  /\ d.outcome = Rejected(Str(c.reply.error))
     /\ \A k \in Keys :
         (store[k].present /\ store'[k].present) => store'[k] = store[k]]_vars

\* a set on a key that has a row was refused, and the row is still there
C12_Witness ==
  \E p \in Procs :
    /\ calls[p].op = "set"
    /\ calls[p].pc = "settled"
    /\ calls[p].outcome = Rejected(Str(ErrDuplicate))
    /\ store[calls[p].key].present
    /\ store[calls[p].key].value # calls[p].value

---------------------------------------------------------------------------
(* C13 *)

\* the callback of the SELECT of a get ran with a row
ReadRow(p) ==
  /\ CalledBack(p)
  /\ calls[p].op = "get"
  /\ Len(calls[p].queries) = 1
  /\ calls[p].reply.error = NoError
  /\ Len(calls[p].reply.results) > 0

\* C13: the expiry_ts a get reads for a row with a ttl is ttl + created_at in
\* seconds; with deleteExpiredItems enabled get takes the row for expired,
\* issuing its delete instead of returning the value, exactly when the clock
\* it reads is at or past expiry_ts * 1000; a row with ttl 0 is at or past
\* its expiry from the moment it is read, and the clock never goes back.
C13_ExpiryTest ==
  [][/\ now' >= now
     /\ \A p \in Procs :
         LET c == calls[p]
             d == calls'[p]
             r == store[c.key]
         IN  /\ (GetAnswered(p) /\ Len(d.reply.results) > 0) =>
                  /\ r.present
                  /\ r.ttl.type = "number" =>
                       /\ d.reply.results[1].expiry_ts =
                            Num(r.ttl.v + r.created_at)
                       /\ r.ttl.v = 0 =>
                            now >= ExpiryMs(d.reply.results[1])
             /\ (ReadRow(p) /\ Enabled) =>
                  /\ d.data.at = now
                  /\ now >= ExpiryMs(c.reply.results[1]) =>
                       /\ d.pc = "sent"
                       /\ Kinds(d) = <<"SELECT", "DELETE">>
                  /\ now < ExpiryMs(c.reply.results[1]) =>
                       /\ d.pc = "settled"
                       /\ Kinds(d) = <<"SELECT">>
                       /\ d.outcome = Resolved(Str(c.reply.results[1].value))]_vars

\* a get evaluated a row at exactly its expiry instant, which is not the
\* instant the row was created at, and issued its delete
C13_Witness ==
  \E p \in Procs :
    /\ Enabled
    /\ GotRow(calls[p])
    /\ calls[p].data.rows[1].expiry_ts = Num(1)
    /\ calls[p].data.at = 1000
    /\ Kinds(calls[p]) = <<"SELECT", "DELETE">>

\* a get read a row stored with ttl 0 and issued its delete
C13_ZeroTtl ==
  \E p \in Procs :
    /\ Enabled
    /\ GotRow(calls[p])
    /\ calls[p].data.rows[1].value # LeftValue
    /\ calls[p].data.rows[1].expiry_ts = Num(calls[p].data.at \div 1000)
    /\ calls[p].data.at > 0
    /\ Kinds(calls[p]) = <<"SELECT", "DELETE">>

---------------------------------------------------------------------------
(* C14 *)

\* get is awaiting the delete it issued for the row it read
Repairing(c) == c.op = "get" /\ Len(c.queries) = 2

\* C14: a get awaits a delete only with deleteExpiredItems enabled and after
\* reading an expired row; when that delete is answered with an error the
\* table is left as it was, and when its callback runs get rejects with that
\* error.
C14_FailedRepairRejects ==
  [][\A p \in Procs :
       LET c == calls[p]
           d == calls'[p]
       IN  /\ Repairing(d) => Enabled /\ GotExpired(d)
           /\ (Answered(p) /\ Repairing(c) /\ d.reply.error # NoError) =>
                store' = store
           /\ (CalledBack(p) /\ Repairing(c) /\ c.reply.error # NoError) =>
                /\ d.pc = "settled"
                /\ d.outcome = Rejected(Str(c.reply.error))
                /\ store' = store]_vars

\* a get was rejected with the error of its delete, and the expired row it
\* read is still in the table
C14_Witness ==
  \E p \in Procs :
    LET c == calls[p]
    IN  /\ Repairing(c)
        /\ c.pc = "settled"
        /\ c.outcome \in {Rejected(Str(e)) : e \in ConnectionErrors}
        /\ store[c.key].present
        /\ store[c.key].value = c.data.rows[1].value
        /\ c.data.at >= RowExpiryMs(store[c.key])

---------------------------------------------------------------------------
(* C15 *)

InFlight(p) == calls[p].pc \in {"sent", "replied"}

Completed(p) == calls[p].pc = "settled" /\ calls[p].outcome.state # "pending"

\* C15: the callback of a query that reports an error rejects the operation
\* with that error; one that reports none hands the results to the operation,
\* which resolves or goes on to its next query; a settled operation keeps its
\* outcome; and, the connection answering every query and invoking every
\* callback, every operation that was called completes, resolved or rejected.
C15_EveryOperationSettles ==
  /\ [][\A p \in Procs :
          LET c == calls[p]
              d == calls'[p]
          IN  /\ (CalledBack(p) /\ c.reply.error # NoError) =>
                   /\ d.pc = "settled"
                   /\ d.outcome = Rejected(Str(c.reply.error))
              /\ (CalledBack(p) /\ c.reply.error = NoError) =>
                   /\ d.pc \in {"settled", "sent"}
                   /\ d.pc = "settled" => d.outcome.state = "resolved"
                   /\ d.pc = "sent" => d.outcome = Pending
                   /\ (c.op = "get" /\ Len(c.queries) = 1) =>
                        d.data.rows = c.reply.results
              /\ (c.pc = "settled" /\ budget' = budget) => d = c
              /\ d.pc = "settled" <=> d.outcome # Pending]_vars
  /\ \A p \in Procs : InFlight(p) ~> Completed(p)

\* a get has completed after both of its queries were answered and called
\* back
C15_Witness ==
  \E p \in Procs :
    /\ Completed(p)
    /\ calls[p].op = "get"
    /\ Len(calls[p].queries) = 2
    /\ calls[p].outcome = Resolved(Undefined)

---------------------------------------------------------------------------
(* C16 *)

\* caller p holds the result of a set(k, v, {ttl: t}) with t > 0 that
\* succeeded
HasSet(p, k) ==
  /\ calls[p].op = "set"
  /\ calls[p].key = k
  /\ calls[p].pc = "settled"
  /\ calls[p].outcome = Resolved(Undefined)
  /\ calls[p].options \in {TtlOptions(Num(t)) : t \in 1..DefaultTtl}

\* the callback of the SELECT of a get of q runs, the get being the second
\* operation called on the instance
SecondIsGet(q) ==
  /\ budget = MaxSeqCalls - 2
  /\ CalledBack(q)
  /\ calls[q].op = "get"
  /\ Len(calls[q].queries) = 1

\* C16: callers taking turns, when set(k, v, {ttl: t}) with t > 0 succeeded
\* and the next operation is a get(k) whose SELECT is answered without an
\* error, the table holds for k the row (v, t, created_at) of the set, the
\* get read it, and a get that reads the clock before
\* (created_at + t) * 1000 resolves to v, whatever deleteExpiredItems is.
C16_RoundTrip ==
  [][\A p, q \in Procs :
       LET c == calls[q]
           d == calls'[q]
           k == c.key
           set == calls[p]
       IN  (SecondIsGet(q) /\ HasSet(p, k) /\ c.reply.error = NoError) =>
             /\ store[k].present
             /\ store[k].value = set.value
             /\ store[k].ttl = set.options.ttl
             /\ c.reply.results =
                  <<[value |-> set.value,
                     expiry_ts |-> Num(set.options.ttl.v + store[k].created_at)]>>
             /\ now < RowExpiryMs(store[k]) =>
                  /\ d.pc = "settled"
                  /\ d.outcome = Resolved(Str(set.value))
                  /\ store' = store]_vars

\* with deleteExpiredItems enabled, a get that followed a successful
\* set(k, v, {ttl: 1}) resolved to v, having read the clock after the
\* second the row was created in began
C16_Witness ==
  \E p, q \in Procs :
    /\ Enabled
    /\ budget = MaxSeqCalls - 2
    /\ HasSet(p, calls[q].key)
    /\ calls[q].op = "get"
    /\ calls[q].pc = "settled"
    /\ calls[q].outcome = Resolved(Str(calls[p].value))
    /\ calls[q].data.at > 0

\* the same round trip with deleteExpiredItems disabled
C16_WitnessDisabled ==
  \E p, q \in Procs :
    /\ Disabled
    /\ budget = MaxSeqCalls - 2
    /\ HasSet(p, calls[q].key)
    /\ calls[q].op = "get"
    /\ calls[q].pc = "settled"
    /\ calls[q].outcome = Resolved(Str(calls[p].value))
    /\ calls[q].data.at > 0

---------------------------------------------------------------------------
(* C17 *)

\* the operation of p is a get that resolved to a value
ServedValue(p) ==
  /\ calls[p].op = "get"
  /\ calls[p].pc = "settled"
  /\ calls[p].outcome.state = "resolved"
  /\ calls[p].outcome.value.type = "string"

\* C17: with deleteExpiredItems enabled, a get that resolved to a value read
\* a row, resolved to the value of that row, and read a clock that was before
\* expiry_ts * 1000 of that row.
C17_NeverStale ==
  \A p \in Procs :
    (Enabled /\ ServedValue(p)) =>
      /\ GotLive(calls[p])
      /\ calls[p].outcome = Resolved(Str(calls[p].data.rows[1].value))
      /\ calls[p].data.at <= now
      /\ Kinds(calls[p]) = <<"SELECT">>

\* with deleteExpiredItems enabled a get resolved to a value half a second
\* before the row's expiry
C17_Witness ==
  \E p \in Procs :
    /\ Enabled
    /\ ServedValue(p)
    /\ calls[p].data.at > 0
    /\ calls[p].data.at + TickMs = ExpiryMs(calls[p].data.rows[1])

---------------------------------------------------------------------------
(* C18 *)

\* caller q holds the result of a get(k) that resolved to absent
HasMiss(q, k) ==
  /\ calls[q].op = "get"
  /\ calls[q].key = k
  /\ calls[q].pc = "settled"
  /\ calls[q].outcome = Resolved(Undefined)

\* the row that the set of call c inserts at clock ms
RowOfSet(c, ms) ==
  Row(c.value, Column(ResolveTtl(cache, c.options)), UnixTimestamp(ms))

C18_WitnessDisabled ==
  \E p, q \in Procs :
    /\ Disabled
    /\ calls[q].op = "get"
    /\ calls[q].key = "k1"
    /\ calls[q].outcome = Resolved(Str(LeftValue))
    /\ calls[p].op = "set"
    /\ calls[p].key = "k1"
    /\ calls[p].outcome = Rejected(Str(ErrDuplicate))
    /\ store["k1"].value = LeftValue

---------------------------------------------------------------------------
(* C19 *)

\* C19: every query of an operation on k carries k as its key, also the
\* delete that get issues; the rows a SELECT returns are the row of k; and the
\* row of a key changes only in a step in which the server answers a query
\* of an operation on that key, so an answered query leaves the rows of all
\* other keys as they were.
C19_KeyIsolation ==
  [][/\ \A p \in Procs :
         LET c == calls[p]
             d == calls'[p]
         IN  /\ \A i \in 1..Len(d.queries) : d.queries[i].params.key = d.key
             /\ Answered(p) =>
                  \A j \in Keys \ {c.key} : store'[j] = store[j]
             /\ (GetAnswered(p) /\ LastQuery(c).kind = "SELECT"
                  /\ d.reply.error = NoError) =>
                  /\ Len(d.reply.results) = (IF store[c.key].present THEN 1 ELSE 0)
                  /\ \A i \in 1..Len(d.reply.results) :
                       d.reply.results[i].value = store[c.key].value
     /\ \A k \in Keys :
         store'[k] # store[k] =>
           \E p \in Procs : Answered(p) /\ calls[p].key = k]_vars

\* a get of k1 deleted the expired row of k1 while the table held a row for
\* k2, which is still there
C19_Witness ==
  \E p \in Procs :
    /\ calls[p].op = "get"
    /\ calls[p].key = "k1"
    /\ Kinds(calls[p]) = <<"SELECT", "DELETE">>
    /\ calls[p].outcome = Resolved(Undefined)
    /\ ~store["k1"].present
    /\ store["k2"].present

====
